---- MODULE Spec2Model ----
(***************************************************************************)
(* Model of the SRD search backend (src/backends/srd_json.py) and of the   *)
(* lookup commands that call it (src/cogs/srdcog.py).                      *)
(*                                                                         *)
(* A Python str is a sequence of one-character strings.  A JSON-derived    *)
(* value is a node [t, s, kids]: t is "str", "num", "list" or "dict", s    *)
(* the characters of a str, kids the elements of a list or the values of a *)
(* dict in stored key order.  A raw record is a function from attribute    *)
(* names to nodes.                                                         *)
(***************************************************************************)
EXTENDS Integers, Sequences, FiniteSets, TLC

VARIABLES
    raw,      \* __SRD.raw: resource name -> list of raw records
    pc,       \* "idle" before the call, "done" once it has returned or raised
    call,     \* the call made and its arguments
    ret,      \* what the (last) search returned or raised
    matches,  \* the values a command's searches assigned to `matches`
    outcome,  \* which return of the command was taken
    spell,    \* the record the command chose, if any
    names,    \* the names listed by 'Could be: ...'
    nsearch,  \* searches the command made
    item,     \* the argument of collapse
    text,     \* the string collapse returned
    spellin,  \* the raw spell handed to get_spell_info: level, school, ritual
    subhead,  \* the subhead get_spell_info built, or the exception it raised
    cache,    \* the entries of search's lru_cache, least recently used first
    hit,      \* whether the last search was served from the cache
    ncalls,   \* calls of search made through the cache
    evictions,       \* entries the cache has dropped so far
    db,              \* the rows of the guild settings table: guild id, prefix
    guild_ids,       \* db_functions.guild_ids
    guild_prefixes,  \* db_functions.guild_prefixes
    guild_subreddits,\* db_functions.guild_subreddits
    tasks            \* each cache_prefixes invocation: where it stands, what it fetched

infoVars == <<spellin, subhead>>
cacheVars == <<cache, hit, ncalls, evictions>>
guildVars == <<db, guild_ids, guild_prefixes, guild_subreddits, tasks>>

vars == <<raw, pc, call, ret, matches, outcome, spell, names, nsearch, item, text,
          infoVars, cacheVars, guildVars>>

(* ---------------------------- bounds ----------------------------------- *)

\* longest table loaded for one resource
MaxRecords == 7
\* largest explicit trunc argument besides the default
MaxTrunc == 2
\* most nodes of a nested value handed to collapse
MaxNodes == 4
\* entries the result cache holds here; it stands for lru_cache's maxsize of 1024
CacheSize == 2
\* most searches made through the cache in one behaviour
MaxCalls == 4
\* most invocations of cache_prefixes in one behaviour
MaxTasks == 2
\* most rows of the guild settings table
MaxGuilds == 2

\* default of search's trunc parameter
DefaultTrunc == 5
\* spell_command / equipment_command reject requests of at most this length
ShortRequest == 2

(* ---------------------------- strings ---------------------------------- *)

NL == "\n"
EMQUAD == "emquad"
\* the '\n\n' collapse puts in front of every element
SEP == <<NL, NL>>

\* str.lower() on one character of the model's alphabet
LowerChar(c) == CASE c = "A" -> "a" [] c = "B" -> "b" [] OTHER -> c

\* str.lower()
Lower(s) == [i \in 1..Len(s) |-> LowerChar(s[i])]

\* Python's `needle in hay` on strings
IsSubstr(needle, hay) ==
    \E i \in 0..(Len(hay) - Len(needle)) : SubSeq(hay, i + 1, i + Len(needle)) = needle

(* ---------------------------- nested values ---------------------------- *)

Str(s) == [t |-> "str", s |-> s, kids |-> <<>>]
Num == [t |-> "num", s |-> <<>>, kids |-> <<>>]
List(kids) == [t |-> "list", s |-> <<>>, kids |-> kids]
Dict(kids) == [t |-> "dict", s |-> <<>>, kids |-> kids]

RECURSIVE collapse(_)
RECURSIVE CollapseItems(_, _, _)

\* the loop with the separator forgotten: result += collapse(subitem)
CollapseItemsNoSep(kids, i, result) ==
    IF i > Len(kids) THEN result
    ELSE CollapseItems(kids, i + 1, result \o collapse(kids[i]))

\* the for loops of collapse: result += '\n\n' + collapse(subitem)
CollapseItems(kids, i, result) ==
    IF i > Len(kids) THEN result
    ELSE CollapseItems(kids, i + 1, result \o SEP \o collapse(kids[i]))

\* collapse without its dict branch: a mapping falls through to ''
collapseNoDict(x) ==
    IF x.t = "str" THEN x.s
    ELSE IF x.t = "list" THEN CollapseItems(x.kids, 1, <<>>)
    ELSE <<>>

collapse(x) ==
    IF x.t = "str" THEN x.s
    ELSE IF x.t = "list" THEN CollapseItems(x.kids, 1, <<>>)
    ELSE IF x.t = "dict" THEN CollapseItems(x.kids, 1, <<>>)
    ELSE <<>>

RECURSIVE ParagraphsFrom(_, _, _)
ParagraphsFrom(items, i, txt) ==
    IF i > Len(items) THEN txt
    ELSE ParagraphsFrom(items, i + 1, txt \o <<NL, EMQUAD>> \o items[i])

\* list_to_paragraphs on a non-empty list of strings
list_to_paragraphs(items) == ParagraphsFrom(items, 2, items[1])

\* the fields of SpellInfo the lookup commands read
get_spell_info(rec) ==
    [name |-> rec["name"].s,
     description |-> list_to_paragraphs([i \in 1..Len(rec["desc"].kids) |-> rec["desc"].kids[i].s])]

(* ---------------------------- spell subhead ---------------------------- *)

\* NUM_ABBREVS
NUM_ABBREVS ==
    << <<"1", "s", "t">>, <<"2", "n", "d">>, <<"3", "r", "d">>, <<"4", "t", "h">>,
       <<"5", "t", "h">>, <<"6", "t", "h">>, <<"7", "t", "h">>, <<"8", "t", "h">>,
       <<"9", "t", "h">> >>

Text(t) == [exc |-> "none", text |-> t]
NoText(e) == [exc |-> e, text |-> <<>>]

\* tuple[i] as Python indexes: from 0, a negative i counts from the end
PyIndex(tuple, i) ==
    IF i >= 0 /\ i < Len(tuple) THEN Text(tuple[i + 1])
    ELSE IF i < 0 /\ i >= 0 - Len(tuple) THEN Text(tuple[Len(tuple) + i + 1])
    ELSE NoText("IndexError")

\* the index off by one: NUM_ABBREVS[spell['level']]
NumAbbrevSameIndex(level) == PyIndex(NUM_ABBREVS, level)

\* NUM_ABBREVS[spell['level'] - 1]
NumAbbrev(level) == PyIndex(NUM_ABBREVS, level - 1)

CANTRIP == <<" ", "c", "a", "n", "t", "r", "i", "p">>
LEVEL == <<"-", "l", "e", "v", "e", "l", " ">>
RITUAL == <<" ", "(", "r", "i", "t", "u", "a", "l", ")">>

\* the subhead of get_spell_info
SubheadOf(sp) ==
    IF sp.level = 0 THEN Text(sp.school \o CANTRIP)
    ELSE IF NumAbbrev(sp.level).exc # "none" THEN NumAbbrev(sp.level)
    ELSE Text(NumAbbrev(sp.level).text \o LEVEL \o Lower(sp.school)
              \o (IF sp.ritual = "yes" THEN RITUAL ELSE <<>>))

NoSpellIn == [level |-> 0, school |-> <<>>, ritual |-> "no"]

\* before any call of get_spell_info on its own
IdleInfo == spellin = NoSpellIn /\ subhead = NoText("none")

(* ---------------------------- search ----------------------------------- *)

Raised(e) == [exc |-> e, shape |-> "none", results |-> <<>>, truncated |-> FALSE]
BareList == [exc |-> "none", shape |-> "list", results |-> <<>>, truncated |-> FALSE]
Pair(results, truncated) ==
    [exc |-> "none", shape |-> "pair", results |-> results, truncated |-> truncated]

\* `request in search_text` for one record
Hit(rec, attr, request) == IsSubstr(request, Lower(collapse(rec[attr])))

\* `if trunc and len(results) > trunc`
StopScan(results, trunc) == trunc # 0 /\ Len(results) > trunc

RECURSIVE Scan(_, _, _, _, _, _)

\* the loop putting each new match in front: results.insert(0, ...)
ScanNewestFirst(target, attr, request, trunc, i, results) ==
    IF i > Len(target) THEN Pair(results, FALSE)
    ELSE IF attr \notin DOMAIN target[i] THEN Raised("KeyError")
    ELSE IF Hit(target[i], attr, request)
         THEN LET more == <<get_spell_info(target[i])>> \o results
              IN  IF StopScan(more, trunc) THEN Pair(more, TRUE)
                  ELSE Scan(target, attr, request, trunc, i + 1, more)
         ELSE Scan(target, attr, request, trunc, i + 1, results)

Scan(target, attr, request, trunc, i, results) ==
    IF i > Len(target) THEN Pair(results, FALSE)
    ELSE IF attr \notin DOMAIN target[i] THEN Raised("KeyError")
    ELSE IF Hit(target[i], attr, request)
         THEN LET more == Append(results, get_spell_info(target[i]))
              IN  IF StopScan(more, trunc) THEN Pair(more, TRUE)
                  ELSE Scan(target, attr, request, trunc, i + 1, more)
         ELSE Scan(target, attr, request, trunc, i + 1, results)

\* the lookup self.raw[resource] guarded by `except ValueError`: a missing key
\* raises KeyError, which that handler does not catch
LookupResource(table, resource) ==
    IF resource \in DOMAIN table THEN "found" ELSE "KeyError"

search(table, resource, attr, request, trunc) ==
    IF LookupResource(table, resource) # "found" THEN Raised(LookupResource(table, resource))
    ELSE IF Len(table[resource]) = 0 THEN Raised("IndexError")
    ELSE IF attr \notin DOMAIN table[resource][1] THEN BareList
    ELSE Scan(table[resource], attr, request, trunc, 1, <<>>)

(* ---------------------------- the result cache ------------------------- *)

\* the trunc a call runs with: the fourth argument, or the default when omitted
TruncOf(args) == IF Len(args) = 4 THEN args[4] ELSE DefaultTrunc

\* the key made of everything but the limit
CacheKeyNoTrunc(args) == SubSeq(args, 1, 3)

\* lru_cache's key: the positional arguments as passed
CacheKey(args) == args

CachePos(entries, key) == {i \in 1..Len(entries) : entries[i].key = key}

Without(entries, i) == SubSeq(entries, 1, i - 1) \o SubSeq(entries, i + 1, Len(entries))

\* a hit: the entry becomes the most recently used
Touch(entries, i) == Append(Without(entries, i), entries[i])

\* a miss that returned: the result is stored, the least recently used entry
\* dropped when the cache is full
Store(entries, key, value) ==
    IF Len(entries) >= CacheSize
    THEN Append(Without(entries, 1), [key |-> key, value |-> value])
    ELSE Append(entries, [key |-> key, value |-> value])

\* before any call through the cache
IdleCache == cache = <<>> /\ hit = FALSE /\ ncalls = 0 /\ evictions = 0

(* ---------------------------- guild prefixes -------------------------- *)

TaskIds == 1..MaxTasks

NewTask == [pc |-> "new", guilds |-> <<>>]

\* before cache_prefixes is ever called: the module's empty lists
IdleGuilds ==
    /\ db = <<>>
    /\ guild_ids = <<>>
    /\ guild_prefixes = <<>>
    /\ guild_subreddits = <<>>
    /\ tasks = [t \in TaskIds |-> NewTask]

\* guild[0] of every fetched row
RowIds(rows) == [i \in 1..Len(rows) |-> rows[i].id]
\* guild[1] of every fetched row
RowPrefixes(rows) == [i \in 1..Len(rows) |-> rows[i].prefix]

(* ---------------------------- inputs ----------------------------------- *)

\* "Abab" and "Ababa" stand for 'Mass Heal' and 'Mass Healing Word': the first
\* name is part of the second.  Not every spell has a higher_level attribute.
RecAbab == [name |-> Str(<<"A", "b", "a", "b">>), desc |-> List(<<Str(<<"a", "b">>)>>)]
RecAbaba == [name |-> Str(<<"A", "b", "a", "b", "a">>),
             desc |-> List(<<Str(<<"b">>), Str(<<"a">>)>>),
             higher_level |-> List(<<Str(<<"b", "a", "b">>)>>)]
RecAcB == [name |-> Str(<<"a", ",", " ", "b">>), desc |-> List(<<Str(<<"a">>)>>)]

\* a loaded table: up to MaxRecords of the two spells whose names share "abab",
\* alone or followed by the record named "a, b"; or that record alone
CoreTables == UNION {[1..n -> {RecAbab, RecAbaba}] : n \in 1..MaxRecords}
Tables == CoreTables \cup {Append(t, RecAcB) : t \in CoreTables} \cup {<<RecAcB>>}

\* one-node values: strings, a number, the empty containers
Atoms == {Str(<<"a">>), Str(<<"b">>), Str(<<>>), Num, List(<<>>), Dict(<<>>)}

RECURSIVE ValuesOfSize(_)
RECURSIVE ForestsOfSize(_)

\* the non-empty sequences of values with n nodes in all
ForestsOfSize(n) ==
    UNION {{<<v>> \o f : v \in ValuesOfSize(k),
                         f \in (IF k = n THEN {<<>>} ELSE ForestsOfSize(n - k))} : k \in 1..n}

\* the nested values with exactly n nodes
ValuesOfSize(n) ==
    IF n = 1 THEN Atoms
    ELSE {List(f) : f \in ForestsOfSize(n - 1)} \cup {Dict(f) : f \in ForestsOfSize(n - 1)}

Values == UNION {ValuesOfSize(n) : n \in 1..MaxNodes}

Requests ==
    { <<"a", "b", "a", "b">>, <<"A", "b", "a", "b">>, <<"b", "a", "b">>,
      <<"b", "a", "b", "a">>, <<"b", "b", "b">>, <<"a", "b">>,
      <<"a", " ", "b">>, <<"a", ",", " ", "b">> }

Resources == {"spells", "monsters"}
Attributes == {"name", "higher_level", "school"}
Truncs == (0..MaxTrunc) \cup {DefaultTrunc}

NoCall ==
    [op |-> "none", resource |-> "", attr |-> "", request |-> <<>>, query |-> <<>>, trunc |-> 0]
NoRet == Raised("none")

(* ---------------------------- lookup commands -------------------------- *)

\* srd.search_spell(request): the name search of the 'spells' resource with
\* the default limit, handing back the list of matches
search_spell(table, request) == search(table, "spells", "name", request, DefaultTrunc)

\* srd.search_equipment(request): the same over the 'equipment' resource
search_equipment(table, request) == search(table, "equipment", "name", request, DefaultTrunc)

RECURSIVE SplitFrom(_, _, _, _)
\* str.split(): the maximal runs of non-blank characters
SplitFrom(s, i, word, words) ==
    IF i > Len(s) THEN (IF word = <<>> THEN words ELSE Append(words, word))
    ELSE IF s[i] = " "
         THEN SplitFrom(s, i + 1, <<>>, IF word = <<>> THEN words ELSE Append(words, word))
         ELSE SplitFrom(s, i + 1, Append(word, s[i]), words)

Split(s) == SplitFrom(s, 1, <<>>, <<>>)

RECURSIVE JoinFrom(_, _, _, _)
JoinFrom(sep, words, i, acc) ==
    IF i > Len(words) THEN acc
    ELSE JoinFrom(sep, words, i + 1, (IF i = 1 THEN acc ELSE acc \o sep) \o words[i])

\* sep.join(words)
Join(sep, words) == JoinFrom(sep, words, 1, <<>>)

\* ', '.join(request.split())
RejoinWithCommas(request) == Join(<<",", " ">>, Split(request))

\* the length test off by one either way
TooShortStrict(request) == Len(request) < ShortRequest
TooShortLoose(request) == Len(request) <= ShortRequest + 1

\* `len(request) <= 2`
TooShort(request) == Len(request) <= ShortRequest

NamesOf(ms) == [i \in 1..Len(ms) |-> ms[i].name]
LowerNamesOf(ms) == [i \in 1..Len(ms) |-> Lower(ms[i].name)]
InList(x, xs) == \E i \in 1..Len(xs) : xs[i] = x
\* list.index(x)
IndexOf(x, xs) == CHOOSE i \in 1..Len(xs) : xs[i] = x /\ \A j \in 1..(i - 1) : xs[j] # x

\* the count test off by one either way
CouldBeSingle(request, ms) == Len(ms) > 0 /\ ~InList(Lower(request), LowerNamesOf(ms))
CouldBeMoreThanTwo(request, ms) == Len(ms) > 2 /\ ~InList(Lower(request), LowerNamesOf(ms))

\* `len(matches) > 1 and request.lower() not in names_lower`
CouldBe(request, ms) == Len(ms) > 1 /\ ~InList(Lower(request), LowerNamesOf(ms))

\* what a command does with the matches of its search
Disambiguate(request, ms) ==
    IF Len(ms) = 0
    THEN [outcome |-> "not-found", spell |-> <<>>, names |-> <<>>]
    ELSE IF CouldBe(request, ms)
    THEN [outcome |-> "ambiguous", spell |-> <<>>, names |-> NamesOf(ms)]
    ELSE IF ~InList(Lower(request), LowerNamesOf(ms))
    THEN [outcome |-> "resolved", spell |-> <<ms[1]>>, names |-> <<>>]
    ELSE [outcome |-> "resolved",
          spell |-> <<ms[IndexOf(Lower(request), LowerNamesOf(ms))]>>, names |-> <<>>]

\* the end of a command: request is what the user typed, query the string last
\* searched for, r what that search returned, n the searches made, found the
\* values they assigned to `matches`, in call order
Finish(op, request, query, r, n, found, d) ==
    /\ pc' = "done"
    /\ call' = [op |-> op, resource |-> "", attr |-> "name", request |-> request,
                query |-> query, trunc |-> DefaultTrunc]
    /\ ret' = r
    /\ matches' = found
    /\ nsearch' = n
    /\ outcome' = d.outcome
    /\ spell' = d.spell
    /\ names' = d.names
    /\ UNCHANGED <<raw, item, text, infoVars, cacheVars, guildVars>>

NoDecision(o) == [outcome |-> o, spell |-> <<>>, names |-> <<>>]

SpellCommand(request) ==
    /\ pc = "idle"
    /\ IF TooShort(request)
       THEN Finish("spell", request, <<>>, NoRet, 0, <<>>, NoDecision("too-short"))
       ELSE LET r == search_spell(raw, request)
            IN  IF r.exc # "none"
                THEN Finish("spell", request, request, r, 1, <<>>, NoDecision("raised"))
                ELSE Finish("spell", request, request, r, 1, <<r.results>>,
                            Disambiguate(request, r.results))

EquipmentCommand(request) ==
    /\ pc = "idle"
    /\ IF TooShort(request)
       THEN Finish("equipment", request, <<>>, NoRet, 0, <<>>, NoDecision("too-short"))
       ELSE LET r1 == search_equipment(raw, request)
            IN  IF r1.exc # "none"
                THEN Finish("equipment", request, request, r1, 1, <<>>, NoDecision("raised"))
                ELSE IF Len(r1.results) # 0
                THEN Finish("equipment", request, request, r1, 1, <<r1.results>>,
                            Disambiguate(request, r1.results))
                ELSE LET again == RejoinWithCommas(request)
                         r2 == search_equipment(raw, again)
                     IN  IF r2.exc # "none"
                         THEN Finish("equipment", request, again, r2, 2, <<r1.results>>,
                                     NoDecision("raised"))
                         ELSE Finish("equipment", request, again, r2, 2, <<r1.results, r2.results>>,
                                     Disambiguate(again, r2.results))

Search(resource, attr, request, trunc) ==
    /\ pc = "idle"
    /\ pc' = "done"
    /\ call' = [op |-> "search", resource |-> resource, attr |-> attr,
                request |-> request, query |-> request, trunc |-> trunc]
    /\ ret' = search(raw, resource, attr, request, trunc)
    /\ UNCHANGED <<raw, matches, outcome, spell, names, nsearch, item, text, infoVars, cacheVars, guildVars>>

Init ==
    /\ \E t \in Tables : raw = [spells |-> t, equipment |-> t]
    /\ pc = "idle"
    /\ call = NoCall
    /\ ret = NoRet
    /\ matches = <<>>
    /\ outcome = "none"
    /\ spell = <<>>
    /\ names = <<>>
    /\ nsearch = 0
    /\ item = Num
    /\ text = <<>>
    /\ IdleInfo
    /\ IdleCache
    /\ IdleGuilds

Next ==
    \/ \E q \in Requests : SpellCommand(q)
    \/ \E q \in Requests : EquipmentCommand(q)
    \/ \E r \in Resources, a \in Attributes, q \in Requests, n \in Truncs : Search(r, a, q, n)

Spec == Init /\ [][Next]_vars

(* ---------------------------- collapse alone --------------------------- *)

Collapse ==
    /\ pc = "idle"
    /\ pc' = "done"
    /\ call' = [NoCall EXCEPT !.op = "collapse"]
    /\ text' = collapse(item)
    /\ UNCHANGED <<raw, ret, matches, outcome, spell, names, nsearch, item, infoVars, cacheVars, guildVars>>

InitCollapse ==
    /\ item \in Values
    /\ raw = [spells |-> <<RecAbab>>, equipment |-> <<RecAbab>>]
    /\ pc = "idle"
    /\ call = NoCall
    /\ ret = NoRet
    /\ matches = <<>>
    /\ outcome = "none"
    /\ spell = <<>>
    /\ names = <<>>
    /\ nsearch = 0
    /\ text = <<>>
    /\ IdleInfo
    /\ IdleCache
    /\ IdleGuilds

NextCollapse == Collapse

SpecCollapse == InitCollapse /\ [][NextCollapse]_vars

(* ---------------------------- search behind its cache ------------------ *)

CacheTables == { <<RecAbab, RecAbaba>>, <<RecAbaba, RecAbab, RecAbaba, RecAcB>> }

\* the argument tuples of the calls: with and without an explicit trunc, one
\* of them naming a resource that is not loaded
CacheArgs ==
    { <<"spells", "name", q>> : q \in {<<"b", "a", "b">>, <<"a", "b", "a", "b">>} }
    \cup { <<"spells", "name", q, n>> :
               q \in {<<"b", "a", "b">>, <<"a", "b", "a", "b">>}, n \in {1, DefaultTrunc} }
    \cup { <<"monsters", "name", <<"b", "a", "b">> >> }

CachedSearch(args) ==
    /\ ncalls < MaxCalls
    /\ ncalls' = ncalls + 1
    /\ pc' = "done"
    /\ call' = [op |-> "cached", resource |-> args[1], attr |-> args[2],
                request |-> args[3], query |-> args[3], trunc |-> TruncOf(args)]
    /\ IF CachePos(cache, CacheKey(args)) # {}
       THEN LET i == CHOOSE j \in CachePos(cache, CacheKey(args)) : TRUE
            IN  /\ ret' = cache[i].value
                /\ cache' = Touch(cache, i)
                /\ hit' = TRUE
                /\ UNCHANGED evictions
       ELSE LET r == search(raw, args[1], args[2], args[3], TruncOf(args))
            IN  /\ ret' = r
                /\ hit' = FALSE
                /\ IF r.exc # "none"
                   THEN UNCHANGED <<cache, evictions>>
                   ELSE /\ cache' = Store(cache, CacheKey(args), r)
                        /\ evictions' = IF Len(cache) >= CacheSize
                                         THEN evictions + 1 ELSE evictions
    /\ UNCHANGED <<raw, matches, outcome, spell, names, nsearch, item, text, infoVars,
                   guildVars>>

InitCache ==
    /\ \E t \in CacheTables : raw = [spells |-> t, equipment |-> t]
    /\ IdleCache
    /\ IdleGuilds
    /\ pc = "idle"
    /\ call = NoCall
    /\ ret = NoRet
    /\ matches = <<>>
    /\ outcome = "none"
    /\ spell = <<>>
    /\ names = <<>>
    /\ nsearch = 0
    /\ item = Num
    /\ text = <<>>
    /\ IdleInfo

NextCache == \E args \in CacheArgs : CachedSearch(args)

SpecCache == InitCache /\ [][NextCache]_vars

(* ---------------------------- cache_prefixes --------------------------- *)

GuildIds == 1..MaxGuilds
Prefixes == {"!", "?"}

\* the guild settings tables: at most one row for a guild
GuildTables ==
    {rows \in UNION {[1..n -> [id : GuildIds, prefix : Prefixes]] : n \in 0..MaxGuilds} :
        \A i, j \in 1..Len(rows) : rows[i].id = rows[j].id => i = j}

\* cache_prefixes up to its first await: the three lists are cleared and
\* db_query waits for engine.connect()
StartCaching(t) ==
    /\ tasks[t].pc = "new"
    /\ guild_ids' = <<>>
    /\ guild_prefixes' = <<>>
    /\ guild_subreddits' = <<>>
    /\ tasks' = [tasks EXCEPT ![t].pc = "connect"]
    /\ UNCHANGED db

\* db_query: the connection is there, conn.execute(query) is awaited
Connected(t) ==
    /\ tasks[t].pc = "connect"
    /\ tasks' = [tasks EXCEPT ![t].pc = "execute"]
    /\ UNCHANGED <<db, guild_ids, guild_prefixes, guild_subreddits>>

\* db_query: the statement ran, fetchall() is awaited
Executed(t) ==
    /\ tasks[t].pc = "execute"
    /\ tasks' = [tasks EXCEPT ![t].pc = "fetch"]
    /\ UNCHANGED <<db, guild_ids, guild_prefixes, guild_subreddits>>

\* db_query: the rows are there, conn.close() is awaited
Fetched(t) ==
    /\ tasks[t].pc = "fetch"
    /\ tasks' = [tasks EXCEPT ![t] = [pc |-> "close", guilds |-> db]]
    /\ UNCHANGED <<db, guild_ids, guild_prefixes, guild_subreddits>>

\* db_query: execute or fetchall raised, None is returned and the for loop of
\* cache_prefixes raises TypeError
QueryFailed(t) ==
    /\ tasks[t].pc \in {"execute", "fetch"}
    /\ tasks' = [tasks EXCEPT ![t].pc = "failed"]
    /\ UNCHANGED <<db, guild_ids, guild_prefixes, guild_subreddits>>

\* db_query returns the rows and the for loop appends them all, with no await
\* in between
AppendGuilds(t) ==
    /\ tasks[t].pc = "close"
    /\ guild_ids' = guild_ids \o RowIds(tasks[t].guilds)
    /\ guild_prefixes' = guild_prefixes \o RowPrefixes(tasks[t].guilds)
    /\ tasks' = [tasks EXCEPT ![t].pc = "done"]
    /\ UNCHANGED <<db, guild_subreddits>>

InitPrefixes ==
    /\ db \in GuildTables
    /\ guild_ids = <<>>
    /\ guild_prefixes = <<>>
    /\ guild_subreddits = <<>>
    /\ tasks = [t \in TaskIds |-> NewTask]
    /\ raw = [spells |-> <<RecAbab>>, equipment |-> <<RecAbab>>]
    /\ pc = "idle"
    /\ call = NoCall
    /\ ret = NoRet
    /\ matches = <<>>
    /\ outcome = "none"
    /\ spell = <<>>
    /\ names = <<>>
    /\ nsearch = 0
    /\ item = Num
    /\ text = <<>>
    /\ IdleInfo
    /\ cache = <<>> /\ hit = FALSE /\ ncalls = 0 /\ evictions = 0

LookupsUnchanged ==
    UNCHANGED <<raw, pc, call, ret, matches, outcome, spell, names, nsearch, item, text,
                infoVars, cacheVars>>

NextPrefixes ==
    \/ \E t \in TaskIds : StartCaching(t) /\ LookupsUnchanged
    \/ \E t \in TaskIds : Connected(t) /\ LookupsUnchanged
    \/ \E t \in TaskIds : Executed(t) /\ LookupsUnchanged
    \/ \E t \in TaskIds : Fetched(t) /\ LookupsUnchanged
    \/ \E t \in TaskIds : QueryFailed(t) /\ LookupsUnchanged
    \/ \E t \in TaskIds : AppendGuilds(t) /\ LookupsUnchanged

SpecPrefixes == InitPrefixes /\ [][NextPrefixes]_vars

(* ---------------------------- get_spell_info alone --------------------- *)

\* spell levels of the dataset: a cantrip and one level for each of NUM_ABBREVS
Levels == 0..Len(NUM_ABBREVS)
Schools == { <<"A", "b">>, <<"B", "a">>, <<"a", "B">>, <<"b">> }
Rituals == {"yes", "no"}
SpellInputs == [level : Levels, school : Schools, ritual : Rituals]

SpellInfoCall ==
    /\ pc = "idle"
    /\ pc' = "done"
    /\ call' = [NoCall EXCEPT !.op = "get_spell_info"]
    /\ subhead' = SubheadOf(spellin)
    /\ UNCHANGED <<raw, ret, matches, outcome, spell, names, nsearch, item, text, spellin,
                   cacheVars, guildVars>>

InitSpellInfo ==
    /\ spellin \in SpellInputs
    /\ subhead = NoText("none")
    /\ raw = [spells |-> <<RecAbab>>, equipment |-> <<RecAbab>>]
    /\ pc = "idle"
    /\ call = NoCall
    /\ ret = NoRet
    /\ matches = <<>>
    /\ outcome = "none"
    /\ spell = <<>>
    /\ names = <<>>
    /\ nsearch = 0
    /\ item = Num
    /\ text = <<>>
    /\ IdleCache
    /\ IdleGuilds

NextSpellInfo == SpellInfoCall

SpecSpellInfo == InitSpellInfo /\ [][NextSpellInfo]_vars

(* ---------------------------- vocabulary of the claims ----------------- *)

SearchDone == pc = "done" /\ call.op = "search"
CommandDone == pc = "done" /\ call.op \in {"spell", "equipment"}
CollapseDone == pc = "done" /\ call.op = "collapse"

\* the table a finished command searched
CommandTable == IF call.op = "equipment" THEN raw["equipment"] ELSE raw["spells"]

\* a search whose resource is loaded and whose attribute every record carries
SearchInSchema ==
    /\ SearchDone
    /\ call.resource \in DOMAIN raw
    /\ \A i \in 1..Len(raw[call.resource]) : call.attr \in DOMAIN raw[call.resource][i]

\* the records of t whose lower-cased name contains q as typed
NameHits(t, q) == {i \in 1..Len(t) : IsSubstr(q, Lower(t[i]["name"].s))}

\* the records of t whose lower-cased name is lower-cased q
ExactNames(t, q) == {i \in 1..Len(t) : Lower(t[i]["name"].s) = Lower(q)}

\* the normalized records of those records of t that contain q in attribute a,
\* letter case ignored on both sides, in table order
RECURSIVE FoldedMatches(_, _, _, _)
FoldedMatches(t, a, q, i) ==
    IF i > Len(t) THEN <<>>
    ELSE (IF IsSubstr(Lower(q), Lower(collapse(t[i][a]))) THEN <<get_spell_info(t[i])>> ELSE <<>>)
         \o FoldedMatches(t, a, q, i + 1)

\* how many records of t contain q, as typed, in attribute a
TypedMatchCount(t, a, q) ==
    Cardinality({i \in 1..Len(t) : IsSubstr(q, Lower(collapse(t[i][a])))})

RECURSIVE HasStr(_)
HasStr(x) == x.t = "str" \/ \E i \in 1..Len(x.kids) : HasStr(x.kids[i])

RECURSIVE NodeCount(_)
RECURSIVE NodeCountFrom(_, _)
NodeCountFrom(kids, i) ==
    IF i > Len(kids) THEN 0 ELSE NodeCount(kids[i]) + NodeCountFrom(kids, i + 1)
NodeCount(x) == 1 + NodeCountFrom(x.kids, 1)

\* the string leaves of a value in traversal order
RECURSIVE Leaves(_)
RECURSIVE LeavesFrom(_, _)
LeavesFrom(kids, i) ==
    IF i > Len(kids) THEN <<>> ELSE Leaves(kids[i]) \o LeavesFrom(kids, i + 1)
Leaves(x) == IF x.t = "str" THEN <<x.s>> ELSE LeavesFrom(x.kids, 1)

IsNL(c) == c = NL
NotNL(c) == c # NL
NonEmpty(s) == s # <<>>

\* the maximal runs of characters other than the line break
RECURSIVE TokensFrom(_, _, _, _)
TokensFrom(s, i, word, words) ==
    IF i > Len(s) THEN (IF word = <<>> THEN words ELSE Append(words, word))
    ELSE IF s[i] = NL
         THEN TokensFrom(s, i + 1, <<>>, IF word = <<>> THEN words ELSE Append(words, word))
         ELSE TokensFrom(s, i + 1, Append(word, s[i]), words)
Tokens(s) == TokensFrom(s, 1, <<>>, <<>>)

\* every maximal run of line breaks is a whole number of '\n\n' separators
WholeSeparators(s) ==
    \A i \in 1..Len(s) :
        (s[i] = NL /\ (i = 1 \/ s[i - 1] # NL)) =>
            LET j == CHOOSE k \in i..Len(s) :
                         /\ \A m \in i..k : s[m] = NL
                         /\ (k = Len(s) \/ s[k + 1] # NL)
            IN  (j - i + 1) % 2 = 0

(* ---------------------------- claims ----------------------------------- *)

\* C1: a search naming a resource that is not loaded, or an attribute absent
\* from the first record of a loaded resource, returns the pair (empty
\* sequence, truncated = false) and raises nothing.
C1_SilentMiss ==
    (SearchDone /\ (call.resource \notin DOMAIN raw
                    \/ call.attr \notin DOMAIN raw[call.resource][1]))
        => ret = Pair(<<>>, FALSE)

\* C2: when the table holds a record whose lower-cased name is the lower-cased
\* request, the lookup resolves to such a record, whatever else matches and
\* wherever that record sits in the table.
C2_ExactNameResolves ==
    (CommandDone /\ ExactNames(CommandTable, call.request) # {})
        => /\ outcome = "resolved"
           /\ \E i \in ExactNames(CommandTable, call.request) :
                  spell = <<get_spell_info(CommandTable[i])>>

\* C3: search ignores letter case: an untruncated search returns exactly the
\* records whose lower-cased collapsed attribute text contains the lower-cased
\* query, so queries differing only in case return the same matches.
C3_CaseInsensitive ==
    (SearchInSchema /\ ret.exc = "none" /\ ~ret.truncated)
        => ret.results = FoldedMatches(raw[call.resource], call.attr, call.request, 1)

\* C4: a search with a nonzero limit whose query is found in more than limit
\* records returns truncated = true and at most limit records.
C4_AtMostLimit ==
    (SearchInSchema /\ call.trunc # 0
       /\ TypedMatchCount(raw[call.resource], call.attr, call.request) > call.trunc)
        => ret.truncated /\ Len(ret.results) <= call.trunc

\* C5 as stated: every lookup ends not-found, resolved or ambiguous after
\* exactly one search.
C5_ThreeOutcomesOneSearch ==
    CommandDone => outcome \in {"not-found", "resolved", "ambiguous"} /\ nsearch = 1

\* C5 as amended: every lookup ends in exactly one of too-short, not-found,
\* resolved or ambiguous; too-short exactly for requests of at most two
\* characters, and then without any search; otherwise the spell lookup
\* searches once and the equipment lookup once, or twice exactly when its
\* first search returned no match.
C5_OutcomesAndSearches ==
    CommandDone =>
        /\ outcome \in {"too-short", "not-found", "resolved", "ambiguous"}
        /\ (outcome = "too-short") = (Len(call.request) <= ShortRequest)
        /\ outcome = "too-short" => nsearch = 0
        /\ (outcome # "too-short" /\ call.op = "spell") => nsearch = 1
        /\ (outcome # "too-short" /\ call.op = "equipment") =>
               /\ nsearch \in {1, 2}
               /\ (nsearch = 2) = (matches[1] = <<>>)

C5_Witness ==
    CommandDone /\ call.op = "equipment" /\ nsearch = 2 /\ outcome = "resolved"

\* C6 as stated: a request found in exactly one record's name resolves to that
\* record.
C6_SingleMatchResolves ==
    (CommandDone /\ Cardinality(NameHits(CommandTable, call.request)) = 1)
        => /\ outcome = "resolved"
           /\ \A i \in NameHits(CommandTable, call.request) :
                  spell = <<get_spell_info(CommandTable[i])>>

\* C6 as amended: a request of more than two characters found in exactly one
\* record's name resolves to that record.
C6_LongSingleMatchResolves ==
    (CommandDone /\ Len(call.request) > ShortRequest
       /\ Cardinality(NameHits(CommandTable, call.request)) = 1)
        => /\ outcome = "resolved"
           /\ \A i \in NameHits(CommandTable, call.request) :
                  spell = <<get_spell_info(CommandTable[i])>>

C6_Witness ==
    /\ CommandDone
    /\ Len(call.request) > ShortRequest
    /\ Len(CommandTable) > 2
    /\ \E i \in 2..Len(CommandTable) : NameHits(CommandTable, call.request) = {i}
    /\ outcome = "resolved"

\* C7 as stated: a request found in no record's name ends not-found.
C7_NoMatchNotFound ==
    (CommandDone /\ NameHits(CommandTable, call.request) = {}) => outcome = "not-found"

\* C7 as amended: a request of more than two characters found in no record's
\* name ends not-found in the spell lookup; the equipment lookup searches
\* once more for the rejoined request and ends not-found exactly when that
\* is found in no name either.
C7_LongNoMatch ==
    (CommandDone /\ Len(call.request) > ShortRequest
       /\ NameHits(CommandTable, call.request) = {})
        => /\ call.op = "spell" => outcome = "not-found"
           /\ call.op = "equipment" =>
                  /\ nsearch = 2
                  /\ (outcome = "not-found") = (NameHits(CommandTable, call.query) = {})

C7_Witness ==
    /\ CommandDone
    /\ call.op = "spell"
    /\ Len(call.request) > ShortRequest
    /\ NameHits(CommandTable, call.request) = {}
    /\ outcome = "not-found"

\* C8: a lookup ends ambiguous exactly when its search returned more than one
\* match and no match's lower-cased name is the lower-cased query; it then
\* carries the names of all returned matches in the order search returned them.
C8_AmbiguousExactly ==
    CommandDone =>
        /\ (outcome = "ambiguous") =
               (/\ nsearch > 0
                /\ Len(matches[nsearch]) > 1
                /\ \A i \in 1..Len(matches[nsearch]) :
                       Lower(matches[nsearch][i].name) # Lower(call.query))
        /\ outcome = "ambiguous" =>
               /\ Len(names) = Len(matches[nsearch])
               /\ \A i \in 1..Len(names) : names[i] = matches[nsearch][i].name

C8_Witness ==
    /\ CommandDone
    /\ outcome = "ambiguous"
    /\ Len(names) > 2
    /\ \E i, j \in 1..Len(names) : names[i] # names[j]

\* C9 as stated: collapse of a value without a string leaf is the empty string.
C9_NoStringsEmpty ==
    (CollapseDone /\ ~HasStr(item)) => text = <<>>

\* C9 as amended: collapse of a value without a string leaf holds nothing but
\* separators, one '\n\n' for every list element and mapping value at any
\* depth; it is empty only for a scalar or an empty container.
C9_NoStringsOnlySeparators ==
    (CollapseDone /\ ~HasStr(item))
        => /\ \A i \in 1..Len(text) : text[i] = NL
           /\ Len(text) = 2 * (NodeCount(item) - 1)

C9_Witness ==
    /\ CollapseDone
    /\ ~HasStr(item)
    /\ item.t = "dict"
    /\ NodeCount(item) > 2
    /\ text # <<>>

\* C10 as stated: collapse returns the string leaves in traversal order joined
\* by the separator, non-string leaves adding no characters.
C10_LeavesJoined ==
    CollapseDone => text = Join(SEP, Leaves(item))

\* C10 as amended: collapse returns the string leaves in traversal order and
\* no other characters than line breaks; consecutive leaves are separated by
\* one or more '\n\n' separators and the string may begin or end with some,
\* because every list element and mapping value, string or not, is preceded
\* by one separator.
C10_LeavesInOrder ==
    CollapseDone =>
        /\ SelectSeq(text, NotNL) = Join(<<>>, Leaves(item))
        /\ Tokens(text) = SelectSeq(Leaves(item), NonEmpty)
        /\ WholeSeparators(text)
        /\ Len(SelectSeq(text, IsNL)) = 2 * (NodeCount(item) - 1)

C10_Witness ==
    /\ CollapseDone
    /\ item.t = "dict"
    /\ Len(SelectSeq(Leaves(item), NonEmpty)) >= 2
    /\ \E i \in 1..Len(item.kids) : item.kids[i].t # "str"

SpellInfoDone == pc = "done" /\ call.op = "get_spell_info"

DIGITS == <<"1", "2", "3", "4", "5", "6", "7", "8", "9">>

\* the English ordinal of n in 1..9, written out
Ordinal(n) ==
    <<DIGITS[n]>> \o (CASE n = 1 -> <<"s", "t">>
                         [] n = 2 -> <<"n", "d">>
                         [] n = 3 -> <<"r", "d">>
                         [] OTHER -> <<"t", "h">>)

IsPrefix(p, q) == Len(p) <= Len(q) /\ SubSeq(q, 1, Len(p)) = p

\* the normalized records of those records of t that contain q, as typed, in
\* attribute a, in table order
RECURSIVE TypedMatches(_, _, _, _)
TypedMatches(t, a, q, i) ==
    IF i > Len(t) THEN <<>>
    ELSE (IF IsSubstr(q, Lower(collapse(t[i][a]))) THEN <<get_spell_info(t[i])>> ELSE <<>>)
         \o TypedMatches(t, a, q, i + 1)

\* C13: the sequence search returns is a prefix of the sequence of all
\* matching records in table order (whether the query's letter case is
\* ignored or not): first match first, none skipped, repeated or reordered.
C13_PrefixInTableOrder ==
    SearchInSchema =>
        /\ ret.exc = "none"
        /\ IsPrefix(ret.results, TypedMatches(raw[call.resource], call.attr, call.request, 1))
        /\ IsPrefix(ret.results, FoldedMatches(raw[call.resource], call.attr, call.request, 1))

\* a search stopped early that returned two different records, with a third
\* match left in the table
C13_Witness ==
    /\ SearchInSchema
    /\ ret.truncated
    /\ Len(ret.results) = 2
    /\ ret.results[1] # ret.results[2]
    /\ TypedMatchCount(raw[call.resource], call.attr, call.request) > 2

\* C14: truncated = true means a matching record is missing from the returned
\* sequence; and when at most limit records match (or the limit is 0, for no
\* limit), truncated = false and every matching record is returned.
C14_TruncatedMeansMore ==
    SearchInSchema =>
        /\ ret.truncated =>
               TypedMatchCount(raw[call.resource], call.attr, call.request) > Len(ret.results)
        /\ (call.trunc = 0
            \/ TypedMatchCount(raw[call.resource], call.attr, call.request) <= call.trunc)
               => /\ ~ret.truncated
                  /\ ret.results =
                         TypedMatches(raw[call.resource], call.attr, call.request, 1)

CachedDone == pc = "done" /\ call.op = "cached"

\* C12: whatever calls came before and whatever the cache has dropped, a
\* search returns (or raises) what a scan of the table with the same resource,
\* attribute, query and limit returns, in particular when it is served from
\* the cache; the table is never changed after load.
C12_CachedEqualsScan ==
    CachedDone => ret = search(raw, call.resource, call.attr, call.request, call.trunc)

\* a truncated result served from the cache after the cache has dropped entries
C12_Witness ==
    /\ CachedDone
    /\ hit
    /\ evictions > 0
    /\ ret.truncated
    /\ Len(cache) = CacheSize

\* some invocation was started, and every started one has run to its end
\* with its query answered
AllCachingDone ==
    /\ \E t \in TaskIds : tasks[t].pc = "done"
    /\ \A t \in TaskIds : tasks[t].pc \in {"new", "done"}

\* C15: once every started cache_prefixes has completed (here: none of their
\* queries having failed), guild_ids and guild_prefixes have the same length,
\* are aligned, and hold exactly one entry per row of the table, whatever the
\* interleaving of the invocations at their awaits.
C15_OneEntryPerRow ==
    AllCachingDone =>
        /\ Len(guild_ids) = Len(guild_prefixes)
        /\ guild_ids = RowIds(db)
        /\ guild_prefixes = RowPrefixes(db)

====
